---- MODULE Spec2Model ----
(***************************************************************************)
(* The Planet reactive decision engine of src/lib.rs:                      *)
(* PlanetCoreThinkingModel (the PlanetAI handlers) acting on a PlanetState *)
(* (energy cell bank and rocket slot) built by new_planet.                 *)
(***************************************************************************)
EXTENDS Integers, Sequences, FiniteSets, TLC

\* Number of energy cells of the planet (the bank's fixed capacity).
Capacity == 3

\* The history counters (Sunrays handled, rockets built) stop counting here.
MaxCount == 2

\* The planet id handed to new_planet.
PlanetId == 1

RocketStrategy == {"Disabled", "Default", "Safe", "EmergencyReserve"}

BasicResourceType == {"Oxygen", "Hydrogen", "Carbon", "Silicon"}

ComplexResourceType == {"Diamond", "Water", "Life", "Robot", "Dolphin", "AIPartner"}

\* Orchestrator message kinds that reach the catch-all arm of handle_orchestrator_msg.
OtherOrchestratorKinds == {"Asteroid", "StartPlanetAI", "StopPlanetAI", "KillPlanet"}

None == "None"

Min(a, b) == IF a < b THEN a ELSE b

\* subtraction without the floor at zero
saturating_sub_Unfloored(a, b) == a - b

\* u32::saturating_sub
saturating_sub(a, b) == IF a >= b THEN a - b ELSE 0

VARIABLES
    ai,          \* PlanetCoreThinkingModel: basic_resource, rocket_strategy, running
    state,       \* PlanetState: cells (charged flags, in order), rocket (slot filled)
    generator,   \* the Generator's recipe set (gen_rules)
    msg,         \* the message handled last: kind, arg
    reply,       \* what the handler returned for it (kind "None": no reply)
    pre,         \* the PlanetState and running flag just before the last handling
    built,       \* successful try_build_rocket calls during the last handling
    sunrays,     \* Sunrays handled so far (stops at MaxCount)
    builds,      \* rockets built so far (stops at MaxCount)
    sawAsteroid, \* an Asteroid has been handled
    sawRequest,  \* a message other than Sunray, Asteroid, Start, Stop has been handled
    fed,         \* a Sunray has been handled since the last Asteroid (or since construction)
    twin         \* a second planet (ai, state, last reply) for the two-planet comparison

vars == <<ai, state, generator, msg, reply, pre, built, sunrays, builds,
          sawAsteroid, sawRequest, fed, twin>>

----------------------------------------------------------------------------
(* PlanetState and its collaborators                                       *)

Cells == 1..Capacity

\* PlanetType::A allows rockets.
can_have_rocket == TRUE

has_rocket(st) == st.rocket

\* charged_count with the counter starting at 1
charged_count_FromOne(st) == 1 + Cardinality({i \in Cells : st.cells[i]})

\* PlanetCoreThinkingModel::charged_count
charged_count(st) == Cardinality({i \in Cells : st.cells[i]})

AllCharged(st) == \A i \in Cells : st.cells[i]

\* Index of the first cell with charged flag c, 0 when there is none.
FirstCell(st, c) ==
    IF \E i \in Cells : st.cells[i] = c
    THEN CHOOSE i \in Cells : st.cells[i] = c /\ \A j \in 1..(i-1) : st.cells[j] # c
    ELSE 0

\* PlanetState::full_cell: the first charged cell (0: None).
full_cell(st) == FirstCell(st, TRUE)

\* charge_cell charging the last uncharged cell instead of the first
charge_cell_LastFree(st) ==
    IF \A i \in Cells : st.cells[i]
    THEN [state |-> st, leftover |-> TRUE]
    ELSE LET i == CHOOSE k \in Cells :
                    ~st.cells[k] /\ \A j \in Cells : j > k => st.cells[j]
         IN [state |-> [st EXCEPT !.cells[i] = TRUE], leftover |-> FALSE]

\* PlanetState::charge_cell: charge the first uncharged cell; leftover when all are charged.
charge_cell(st) ==
    LET i == FirstCell(st, FALSE) IN
    IF i = 0 THEN [state |-> st, leftover |-> TRUE]
    ELSE [state |-> [st EXCEPT !.cells[i] = TRUE], leftover |-> FALSE]

\* EnergyCell::charge on cell_mut(i)
charge_at(st, i) == [st EXCEPT !.cells[i] = TRUE]

\* PlanetState::build_rocket(i)
build_rocket(st, i) ==
    IF can_have_rocket /\ ~st.rocket /\ st.cells[i]
    THEN [state |-> [cells |-> [st.cells EXCEPT ![i] = FALSE], rocket |-> TRUE], ok |-> TRUE]
    ELSE [state |-> st, ok |-> FALSE]

\* PlanetState::take_rocket
take_rocket(st) == [state |-> [st EXCEPT !.rocket = FALSE], rocket |-> st.rocket]

\* PlanetState::to_dummy
to_dummy(st) ==
    [energy_cells |-> st.cells, charged_cells_count |-> charged_count(st),
     has_rocket |-> st.rocket]

\* Generator::make_<resource>(cell): needs the recipe and a charged cell, discharges it.
make_resource(gen, resource, st, i) ==
    IF resource \in gen /\ st.cells[i]
    THEN [state |-> [st EXCEPT !.cells[i] = FALSE], resource |-> resource]
    ELSE [state |-> st, resource |-> None]

----------------------------------------------------------------------------
(* The AI                                                                  *)

\* try_build_rocket dropping build_rocket's error: Some(index) whenever a cell is full
try_build_rocket_IgnoresError(st) ==
    LET i == full_cell(st) IN
    IF i = 0 THEN [state |-> st, index |-> 0]
    ELSE [state |-> build_rocket(st, i).state, index |-> i]

\* try_build_rocket: build on the first charged cell; index 0 is None.
try_build_rocket(st) ==
    LET i == full_cell(st) IN
    IF i = 0 THEN [state |-> st, index |-> 0]
    ELSE LET b == build_rocket(st, i) IN
         IF b.ok THEN [state |-> b.state, index |-> i]
         ELSE [state |-> st, index |-> 0]

\* can_build with the Safe arm answering false
can_build_SafeRefused(strategy) ==
    strategy = "EmergencyReserve"

\* can_build with the Default arm answering true
can_build_DefaultBuilds(strategy) ==
    strategy \in {"Default", "Safe", "EmergencyReserve"}

\* the can_build closure of the Sunray arm
can_build(strategy) ==
    CASE strategy = "Disabled" -> FALSE
      [] strategy = "Default" -> FALSE
      [] strategy = "Safe" -> TRUE
      [] strategy = "EmergencyReserve" -> TRUE

NoReply == [kind |-> None]

\* The Sunray arm with CASE A never building: a rocket is built only when the
\* bank was saturated, and the vacated cell is recharged.
HandleSunray_BuildOnlyWhenSaturated(a, st) ==
    LET c == charge_cell(st)
        wants == can_have_rocket /\ ~has_rocket(c.state) /\ can_build(a.rocket_strategy)
        t == try_build_rocket(c.state)
    IN [state |-> IF c.leftover /\ wants /\ t.index # 0
                  THEN charge_at(t.state, t.index)
                  ELSE c.state,
        built |-> IF c.leftover /\ wants /\ t.index # 0 THEN 1 ELSE 0,
        reply |-> [kind |-> "SunrayAck", planet_id |-> PlanetId]]

\* The Sunray arm returning None when the leftover Sunray is dropped
HandleSunray_SilentWhenDropped(a, st) ==
    LET c == charge_cell(st)
        wants == can_have_rocket /\ ~has_rocket(c.state) /\ can_build(a.rocket_strategy)
        t == try_build_rocket(c.state)
        builds_now == wants /\ t.index # 0
    IN [state |-> IF builds_now
                  THEN (IF c.leftover THEN charge_at(t.state, t.index) ELSE t.state)
                  ELSE c.state,
        built |-> IF builds_now THEN 1 ELSE 0,
        reply |-> IF c.leftover /\ ~builds_now
                  THEN NoReply
                  ELSE [kind |-> "SunrayAck", planet_id |-> PlanetId]]

\* handle_orchestrator_msg, Sunray arm
HandleSunray(a, st) ==
    LET c == charge_cell(st)
        wants == can_have_rocket /\ ~has_rocket(c.state) /\ can_build(a.rocket_strategy)
        t == try_build_rocket(c.state)
        after ==
            IF ~c.leftover
            THEN \* CASE A
                 IF wants THEN [state |-> t.state, built |-> IF t.index # 0 THEN 1 ELSE 0]
                 ELSE [state |-> c.state, built |-> 0]
            ELSE \* CASE B
                 IF wants
                 THEN IF t.index # 0
                      THEN [state |-> charge_at(t.state, t.index), built |-> 1]
                      ELSE [state |-> t.state, built |-> 0]
                 ELSE [state |-> c.state, built |-> 0]
    IN [state |-> after.state, built |-> after.built,
        reply |-> [kind |-> "SunrayAck", planet_id |-> PlanetId]]

\* The InternalStateRequest arm masking the count under every strategy
HandleInternalStateRequest_MaskAlways(a, st) ==
    LET dummy_state == to_dummy(st) IN
    [state |-> st, built |-> 0,
     reply |-> [kind |-> "InternalStateResponse", planet_id |-> PlanetId,
                planet_state |-> [dummy_state EXCEPT
                    !.charged_cells_count =
                        saturating_sub(dummy_state.charged_cells_count, 1)]]]

\* handle_orchestrator_msg, InternalStateRequest arm
HandleInternalStateRequest(a, st) ==
    LET dummy_state == to_dummy(st)
        sent == IF a.rocket_strategy = "EmergencyReserve"
                THEN [dummy_state EXCEPT
                        !.charged_cells_count = saturating_sub(dummy_state.charged_cells_count, 1)]
                ELSE dummy_state
    IN [state |-> st, built |-> 0,
        reply |-> [kind |-> "InternalStateResponse", planet_id |-> PlanetId,
                   planet_state |-> sent]]

\* The catch-all arm answering like an asteroid handler: the rocket is taken and acked
HandleOtherOrchestratorMsg_LaunchesRocket(a, st) ==
    [state |-> take_rocket(st).state, built |-> 0,
     reply |-> [kind |-> "AsteroidAck", rocket |-> has_rocket(st)]]

\* handle_orchestrator_msg, catch-all arm
HandleOtherOrchestratorMsg(a, st) == [state |-> st, built |-> 0, reply |-> NoReply]

\* handle_explorer_msg, SupportedResourceRequest arm
HandleSupportedResourceRequest(a, st, gen) ==
    [state |-> st, built |-> 0,
     reply |-> [kind |-> "SupportedResourceResponse", resource_list |-> gen]]

\* the combination rules new_planet gives the Combinator: none
comb_rules == {}

\* handle_explorer_msg, SupportedCombinationRequest arm
HandleSupportedCombinationRequest(a, st) ==
    [state |-> st, built |-> 0,
     reply |-> [kind |-> "SupportedCombinationResponse", combination_list |-> comb_rules]]

\* The gate comparing with < 1 instead of <= 1
ReserveDenies_OffByOne(a, st) ==
    a.rocket_strategy = "EmergencyReserve" /\ charged_count(st) < 1

\* The gate also closed while the AI is not running
ReserveDenies_WhenStopped(a, st) ==
    \/ ~a.running
    \/ a.rocket_strategy = "EmergencyReserve" /\ charged_count(st) <= 1

\* The gate testing the wrong strategy
ReserveDenies_WrongStrategy(a, st) ==
    a.rocket_strategy = "Safe" /\ charged_count(st) <= 1

\* The EmergencyReserve gate of the GenerateResourceRequest arm
ReserveDenies(a, st) ==
    a.rocket_strategy = "EmergencyReserve" /\ charged_count(st) <= 1

\* The GenerateResourceRequest arm discharging the cell before the type is matched
HandleGenerateResourceRequest_ConsumeFirst(a, st, gen, resource) ==
    IF ReserveDenies(a, st)
    THEN [state |-> st, built |-> 0, reply |-> NoReply]
    ELSE LET cell == full_cell(st) IN
         IF cell = 0
         THEN [state |-> st, built |-> 0, reply |-> NoReply]
         ELSE LET m == make_resource(gen, a.basic_resource, st, cell) IN
              IF resource = a.basic_resource
              THEN [state |-> m.state, built |-> 0,
                    reply |-> [kind |-> "GenerateResourceResponse", resource |-> m.resource]]
              ELSE [state |-> m.state, built |-> 0, reply |-> NoReply]

\* handle_explorer_msg, GenerateResourceRequest arm
HandleGenerateResourceRequest(a, st, gen, resource) ==
    IF ReserveDenies(a, st)
    THEN [state |-> st, built |-> 0, reply |-> NoReply]
    ELSE LET cell == full_cell(st) IN
         IF cell = 0
         THEN [state |-> st, built |-> 0, reply |-> NoReply]
         ELSE IF resource = a.basic_resource
              THEN LET m == make_resource(gen, a.basic_resource, st, cell) IN
                   [state |-> m.state, built |-> 0,
                    reply |-> [kind |-> "GenerateResourceResponse", resource |-> m.resource]]
              ELSE [state |-> st, built |-> 0, reply |-> NoReply]

\* The CombineResourceRequest arm with the combination code enabled: with a full
\* cell the Combinator, which has no recipe, answers with an error result
HandleCombineResourceRequest_Enabled(a, st, request) ==
    IF full_cell(st) = 0
    THEN [state |-> st, built |-> 0, reply |-> NoReply]
    ELSE [state |-> st, built |-> 0,
          reply |-> [kind |-> "CombineResourceResponse", complex_response |-> "Err"]]

\* handle_explorer_msg, CombineResourceRequest arm
HandleCombineResourceRequest(a, st, request) ==
    [state |-> st, built |-> 0, reply |-> NoReply]

\* The AvailableEnergyCellRequest arm sending the unmasked count
HandleAvailableEnergyCellRequest_Unmasked(a, st) ==
    [state |-> st, built |-> 0,
     reply |-> [kind |-> "AvailableEnergyCellResponse",
                available_cells |-> charged_count(st)]]

\* The AvailableEnergyCellRequest arm counting the cells, not the charged ones
HandleAvailableEnergyCellRequest_Capacity(a, st) ==
    LET count == Capacity
        available_cells == IF a.rocket_strategy = "EmergencyReserve"
                           THEN saturating_sub(count, 1)
                           ELSE count
    IN [state |-> st, built |-> 0,
        reply |-> [kind |-> "AvailableEnergyCellResponse",
                   available_cells |-> available_cells]]

\* handle_explorer_msg, AvailableEnergyCellRequest arm
HandleAvailableEnergyCellRequest(a, st) ==
    LET count == charged_count(st)
        available_cells == IF a.rocket_strategy = "EmergencyReserve"
                           THEN saturating_sub(count, 1)
                           ELSE count
    IN [state |-> st, built |-> 0,
        reply |-> [kind |-> "AvailableEnergyCellResponse",
                   available_cells |-> available_cells]]

\* The build-on-demand test comparing with the wrong strategy
BuildsOnAsteroid_WrongStrategy(strategy) == strategy = "Disabled"

\* The build-on-demand test excluding only the strategies that rebuild
BuildsOnAsteroid_NotSafe(strategy) == strategy \notin {"Safe", "EmergencyReserve"}

\* handle_asteroid: the strategy that builds a rocket on demand before launching
BuildsOnAsteroid(strategy) == strategy = "Default"

\* The rebuild test forgetting EmergencyReserve
RebuildsAfterLaunch_SafeOnly(strategy) == strategy = "Safe"

\* The rebuild test accepting every strategy
RebuildsAfterLaunch_Always(strategy) == TRUE

\* handle_asteroid: the strategies that rebuild after the rocket is taken
RebuildsAfterLaunch(strategy) == strategy = "Safe" \/ strategy = "EmergencyReserve"

\* handle_asteroid: the reply carries the rocket (TRUE) or nothing (FALSE)
handle_asteroid(a, st) ==
    IF ~can_have_rocket
    THEN [state |-> st, built |-> 0, reply |-> [kind |-> "AsteroidAck", rocket |-> FALSE]]
    ELSE
    LET first == IF BuildsOnAsteroid(a.rocket_strategy)
                 THEN try_build_rocket(st)
                 ELSE [state |-> st, index |-> 0]
        b1 == IF first.index # 0 THEN 1 ELSE 0
    IN IF ~has_rocket(first.state)
       THEN [state |-> first.state, built |-> b1,
             reply |-> [kind |-> "AsteroidAck", rocket |-> FALSE]]
       ELSE
       LET taken == take_rocket(first.state)
           again == IF RebuildsAfterLaunch(a.rocket_strategy)
                    THEN try_build_rocket(taken.state)
                    ELSE [state |-> taken.state, index |-> 0]
           b2 == IF again.index # 0 THEN 1 ELSE 0
       IN [state |-> again.state, built |-> b1 + b2,
           reply |-> [kind |-> "AsteroidAck", rocket |-> taken.rocket]]

\* start flipping the flag instead of setting it
start_Toggles(a) == [a EXCEPT !.running = ~a.running]

\* PlanetAI::start
start(a) == [a EXCEPT !.running = TRUE]

\* PlanetAI::stop
stop(a) == [a EXCEPT !.running = FALSE]

\* new_planet: the AI, the Generator's rules and the fresh PlanetState
new_planet(rocket_strategy, basic_resource) ==
    [ai |-> [basic_resource |-> IF basic_resource = None THEN "Hydrogen" ELSE basic_resource,
             rocket_strategy |-> rocket_strategy,
             running |-> FALSE],
     gen_rules |-> IF basic_resource = None THEN {"Hydrogen"} ELSE {basic_resource},
     state |-> [cells |-> [i \in Cells |-> FALSE], rocket |-> FALSE]]

----------------------------------------------------------------------------
(* The state machine: one action per message handled                       *)

Init ==
    \E s \in RocketStrategy, b \in BasicResourceType \cup {None} :
        LET p == new_planet(s, b) IN
        /\ ai = p.ai
        /\ state = p.state
        /\ generator = p.gen_rules
        /\ msg = [kind |-> None, arg |-> None]
        /\ reply = NoReply
        /\ pre = [state |-> p.state, running |-> FALSE, fed |-> FALSE]
        /\ built = 0
        /\ sunrays = 0
        /\ builds = 0
        /\ sawAsteroid = FALSE
        /\ sawRequest = FALSE
        /\ fed = FALSE
        /\ twin = [ai |-> p.ai, state |-> p.state, reply |-> NoReply]

\* What every handling records: the message, the handler's result, the state before.
Recorded(kind, arg, r) ==
    /\ msg' = [kind |-> kind, arg |-> arg]
    /\ pre' = [state |-> state, running |-> ai.running, fed |-> fed]
    /\ state' = r.state
    /\ reply' = r.reply
    /\ built' = r.built
    /\ builds' = Min(builds + r.built, MaxCount)
    /\ sunrays' = IF kind = "Sunray" THEN Min(sunrays + 1, MaxCount) ELSE sunrays
    /\ sawAsteroid' = (sawAsteroid \/ kind = "Asteroid")
    /\ sawRequest' = (sawRequest \/ kind \notin {"Sunray", "Asteroid", "StartPlanetAI", "StopPlanetAI"})
    /\ fed' = (kind = "Sunray" \/ (fed /\ kind # "Asteroid"))
    /\ UNCHANGED generator

\* A message handled by the one planet; the second planet is not involved.
Handled(kind, arg, r) ==
    /\ Recorded(kind, arg, r)
    /\ UNCHANGED twin

Sunray ==
    /\ Handled("Sunray", None, HandleSunray(ai, state))
    /\ UNCHANGED ai

InternalStateRequest ==
    /\ Handled("InternalStateRequest", None, HandleInternalStateRequest(ai, state))
    /\ UNCHANGED ai

\* A message of another kind handed to handle_orchestrator_msg
OtherOrchestratorMsg ==
    \E k \in OtherOrchestratorKinds :
        /\ Handled("Other", k, HandleOtherOrchestratorMsg(ai, state))
        /\ UNCHANGED ai

Asteroid ==
    /\ Handled("Asteroid", None, handle_asteroid(ai, state))
    /\ UNCHANGED ai

StartPlanetAI ==
    /\ Handled("StartPlanetAI", None, [state |-> state, built |-> 0, reply |-> NoReply])
    /\ ai' = start(ai)

StopPlanetAI ==
    /\ Handled("StopPlanetAI", None, [state |-> state, built |-> 0, reply |-> NoReply])
    /\ ai' = stop(ai)

SupportedResourceRequest ==
    /\ Handled("SupportedResourceRequest", None,
               HandleSupportedResourceRequest(ai, state, generator))
    /\ UNCHANGED ai

SupportedCombinationRequest ==
    /\ Handled("SupportedCombinationRequest", None,
               HandleSupportedCombinationRequest(ai, state))
    /\ UNCHANGED ai

GenerateResourceRequest ==
    \E resource \in BasicResourceType :
        /\ Handled("GenerateResourceRequest", resource,
                   HandleGenerateResourceRequest(ai, state, generator, resource))
        /\ UNCHANGED ai

CombineResourceRequest ==
    \E request \in ComplexResourceType :
        /\ Handled("CombineResourceRequest", request,
                   HandleCombineResourceRequest(ai, state, request))
        /\ UNCHANGED ai

AvailableEnergyCellRequest ==
    /\ Handled("AvailableEnergyCellRequest", None,
               HandleAvailableEnergyCellRequest(ai, state))
    /\ UNCHANGED ai

Next ==
    \/ Sunray
    \/ InternalStateRequest
    \/ OtherOrchestratorMsg
    \/ Asteroid
    \/ StartPlanetAI
    \/ StopPlanetAI
    \/ SupportedResourceRequest
    \/ SupportedCombinationRequest
    \/ GenerateResourceRequest
    \/ CombineResourceRequest
    \/ AvailableEnergyCellRequest

Spec == Init /\ [][Next]_vars

----------------------------------------------------------------------------
(* Two planets fed the same messages                                       *)

\* The strategies a second planet is compared under: Safe against
\* EmergencyReserve and the reverse, and every strategy against itself.
Siblings(s) == IF s \in {"Safe", "EmergencyReserve"} THEN {"Safe", "EmergencyReserve"} ELSE {s}

\* Two planets from new_planet with the same resource, the second under a sibling
\* strategy and either not yet started or already started.
InitPair ==
    \E s \in RocketStrategy, b \in BasicResourceType \cup {None} :
        \E t \in Siblings(s), started \in BOOLEAN :
            LET p == new_planet(s, b)
                q == new_planet(t, b)
            IN
            /\ ai = p.ai
            /\ state = p.state
            /\ generator = p.gen_rules
            /\ msg = [kind |-> None, arg |-> None]
            /\ reply = NoReply
            /\ pre = [state |-> p.state, running |-> FALSE, fed |-> FALSE]
            /\ built = 0
            /\ sunrays = 0
            /\ builds = 0
            /\ sawAsteroid = FALSE
            /\ sawRequest = FALSE
            /\ fed = FALSE
            /\ twin = [ai |-> IF started THEN start(q.ai) ELSE q.ai,
                       state |-> q.state, reply |-> NoReply]

\* The same message handled by both planets, each by its own AI on its own state.
Paired(kind, arg, r, rt) ==
    /\ Recorded(kind, arg, r)
    /\ twin' = [twin EXCEPT !.state = rt.state, !.reply = rt.reply]
    /\ UNCHANGED ai

PairSunray ==
    Paired("Sunray", None, HandleSunray(ai, state), HandleSunray(twin.ai, twin.state))

PairInternalStateRequest ==
    Paired("InternalStateRequest", None,
           HandleInternalStateRequest(ai, state),
           HandleInternalStateRequest(twin.ai, twin.state))

PairOtherOrchestratorMsg ==
    \E k \in OtherOrchestratorKinds :
        Paired("Other", k, HandleOtherOrchestratorMsg(ai, state),
               HandleOtherOrchestratorMsg(twin.ai, twin.state))

PairAsteroid ==
    Paired("Asteroid", None, handle_asteroid(ai, state), handle_asteroid(twin.ai, twin.state))

PairStartPlanetAI ==
    /\ Recorded("StartPlanetAI", None, [state |-> state, built |-> 0, reply |-> NoReply])
    /\ ai' = start(ai)
    /\ twin' = [twin EXCEPT !.ai = start(twin.ai), !.reply = NoReply]

PairStopPlanetAI ==
    /\ Recorded("StopPlanetAI", None, [state |-> state, built |-> 0, reply |-> NoReply])
    /\ ai' = stop(ai)
    /\ twin' = [twin EXCEPT !.ai = stop(twin.ai), !.reply = NoReply]

PairSupportedResourceRequest ==
    Paired("SupportedResourceRequest", None,
           HandleSupportedResourceRequest(ai, state, generator),
           HandleSupportedResourceRequest(twin.ai, twin.state, generator))

PairSupportedCombinationRequest ==
    Paired("SupportedCombinationRequest", None,
           HandleSupportedCombinationRequest(ai, state),
           HandleSupportedCombinationRequest(twin.ai, twin.state))

PairGenerateResourceRequest ==
    \E resource \in BasicResourceType :
        Paired("GenerateResourceRequest", resource,
               HandleGenerateResourceRequest(ai, state, generator, resource),
               HandleGenerateResourceRequest(twin.ai, twin.state, generator, resource))

PairCombineResourceRequest ==
    \E request \in ComplexResourceType :
        Paired("CombineResourceRequest", request,
               HandleCombineResourceRequest(ai, state, request),
               HandleCombineResourceRequest(twin.ai, twin.state, request))

PairAvailableEnergyCellRequest ==
    Paired("AvailableEnergyCellRequest", None,
           HandleAvailableEnergyCellRequest(ai, state),
           HandleAvailableEnergyCellRequest(twin.ai, twin.state))

NextPair ==
    \/ PairSunray
    \/ PairInternalStateRequest
    \/ PairOtherOrchestratorMsg
    \/ PairAsteroid
    \/ PairStartPlanetAI
    \/ PairStopPlanetAI
    \/ PairSupportedResourceRequest
    \/ PairSupportedCombinationRequest
    \/ PairGenerateResourceRequest
    \/ PairCombineResourceRequest
    \/ PairAvailableEnergyCellRequest

SpecPair == InitPair /\ [][NextPair]_vars

----------------------------------------------------------------------------
(* Properties                                                              *)

Strategy == ai.rocket_strategy

\* Every message handled so far was a Sunray (StartPlanetAI and StopPlanetAI aside).
OnlySunrays == ~sawAsteroid /\ ~sawRequest

\* The last message handled was of this kind.
Last(kind) == msg.kind = kind

\* C1 (as stated): under Safe, on a fresh planet fed only Sunrays, a rocket is built
\* only while handling a Sunray that finds every cell charged, and once such a
\* saturating Sunray has been handled exactly one rocket has been built and the
\* charged count equals the count before it.
C1_BuildOnSaturatingSunray ==
    (Strategy = "Safe" /\ OnlySunrays /\ Last("Sunray")) =>
        /\ (built = 1 => AllCharged(pre.state))
        /\ (AllCharged(pre.state) =>
                builds = 1 /\ charged_count(state) = charged_count(pre.state))

\* C1 (amended): under Safe, on a fresh planet fed only Sunrays, exactly one rocket
\* is built, while handling the first Sunray (it consumes the cell that Sunray
\* charged); the saturating Sunray builds nothing and leaves the bank as it was,
\* so the charged count after it equals the count before it (the capacity).
C1_BuildOnFirstSunray ==
    (Strategy = "Safe" /\ OnlySunrays /\ Last("Sunray")) =>
        /\ (built = 1 <=> sunrays = 1)
        /\ builds = 1
        /\ (built = 1 => ~pre.state.rocket /\ state.rocket /\ state.cells = pre.state.cells)
        /\ (AllCharged(pre.state) =>
                /\ built = 0
                /\ state = pre.state
                /\ charged_count(state) = Capacity)

\* C1 witness: the saturating Sunray of a Sunray-only run under Safe has been handled.
C1_Witness ==
    /\ Strategy = "Safe" /\ OnlySunrays /\ Last("Sunray")
    /\ AllCharged(pre.state)
    /\ builds = 1

\* C2: under Safe, after any Sunray the planet holds a rocket, and an
\* InternalStateRequest handled in that state reports has_rocket = true.
C2_SafeSunrayLeavesRocket ==
    (Strategy = "Safe" /\ can_have_rocket /\ Last("Sunray")) =>
        /\ has_rocket(state)
        /\ HandleInternalStateRequest(ai, state).reply.planet_state.has_rocket

\* C2 witness: a Sunray under Safe found no rocket and left one.
C2_Witness ==
    /\ Strategy = "Safe" /\ Last("Sunray")
    /\ ~pre.state.rocket
    /\ state.rocket

\* C3: under Disabled and Default a Sunray builds no rocket: has_rocket is as
\* before, and with a free cell the charged count rises by exactly one.
C3_NoBuildOnSunray ==
    (Strategy \in {"Disabled", "Default"} /\ Last("Sunray")) =>
        /\ built = 0
        /\ has_rocket(state) = has_rocket(pre.state)
        /\ (~AllCharged(pre.state) =>
                charged_count(state) = charged_count(pre.state) + 1)

\* C3 witness: under Default a Sunray found a free cell and charged it.
C3_Witness ==
    /\ Strategy = "Default" /\ Last("Sunray")
    /\ ~AllCharged(pre.state)
    /\ charged_count(state) = charged_count(pre.state) + 1

\* C4: under Default an Asteroid that finds a charged cell is answered with a
\* rocket built during that handling; with no charged cell and no rocket the
\* answer carries no rocket.
C4_DefaultBuildsOnAsteroid ==
    (Strategy = "Default" /\ Last("Asteroid")) =>
        /\ (charged_count(pre.state) >= 1 => reply.rocket /\ built = 1)
        /\ (charged_count(pre.state) = 0 /\ ~pre.state.rocket => ~reply.rocket)

\* C4 witness: under Default an Asteroid found a charged cell and got a rocket.
C4_Witness ==
    /\ Strategy = "Default" /\ Last("Asteroid")
    /\ charged_count(pre.state) >= 1
    /\ reply.rocket

\* The counts the planet reports in the current state.
ReportedToOrchestrator ==
    HandleInternalStateRequest(ai, state).reply.planet_state.charged_cells_count

ReportedToExplorer ==
    HandleAvailableEnergyCellRequest(ai, state).reply.available_cells

\* C5 (as stated): under EmergencyReserve, in every reachable state, both reported
\* counts equal the true charged count minus one.
C5_ReportedIsTrueMinusOne ==
    Strategy = "EmergencyReserve" =>
        /\ ReportedToOrchestrator = charged_count(state) - 1
        /\ ReportedToExplorer = charged_count(state) - 1

\* C5 (amended): under EmergencyReserve, in every reachable state, both reported
\* counts equal the true charged count minus one when a cell is charged, and
\* zero (equal to the true count) when none is.
C5_ReportedIsTrueMinusOneOrZero ==
    Strategy = "EmergencyReserve" =>
        /\ charged_count(state) >= 1 =>
                /\ ReportedToOrchestrator = charged_count(state) - 1
                /\ ReportedToExplorer = charged_count(state) - 1
        /\ charged_count(state) = 0 =>
                /\ ReportedToOrchestrator = 0
                /\ ReportedToExplorer = 0

\* C5 witness: under EmergencyReserve an AvailableEnergyCellRequest was answered
\* with one less than the two or more cells charged.
C5_Witness ==
    /\ Strategy = "EmergencyReserve" /\ Last("AvailableEnergyCellRequest")
    /\ charged_count(state) >= 2
    /\ reply.available_cells = charged_count(state) - 1

\* C6 (as stated): for every strategy, GenerateResourceRequest(X) is answered iff
\* X is the authorized basic_resource and at least one cell is charged.
C6_ReplyIffMatchAndCharged ==
    Last("GenerateResourceRequest") =>
        (reply.kind # None <=>
            (msg.arg = ai.basic_resource /\ charged_count(pre.state) >= 1))

\* C6 (amended): GenerateResourceRequest(X) is answered iff X is the authorized
\* basic_resource and at least one cell is charged, at least two under
\* EmergencyReserve.
C6_ReplyIffMatchAndChargedBeyondReserve ==
    Last("GenerateResourceRequest") =>
        (reply.kind # None <=>
            /\ msg.arg = ai.basic_resource
            /\ charged_count(pre.state) >= (IF Strategy = "EmergencyReserve" THEN 2 ELSE 1))

\* C6 witness: a request for the authorized resource was answered under
\* EmergencyReserve.
C6_Witness ==
    /\ Last("GenerateResourceRequest")
    /\ Strategy = "EmergencyReserve"
    /\ msg.arg = ai.basic_resource
    /\ reply.kind = "GenerateResourceResponse"

\* C7: a rejected GenerateResourceRequest leaves every cell and the rocket slot
\* as they were.
C7_RejectedGenerateChangesNothing ==
    (Last("GenerateResourceRequest") /\ reply.kind = None) => state = pre.state

\* C7 witness: a request for another resource was rejected while a cell was charged.
C7_Witness ==
    /\ Last("GenerateResourceRequest") /\ reply.kind = None
    /\ msg.arg # ai.basic_resource
    /\ ~ReserveDenies(ai, pre.state)
    /\ charged_count(pre.state) >= 1

\* A fresh planet has handled exactly one Sunray and no Asteroid.
OneSunrayOnly == sunrays = 1 /\ ~sawAsteroid

\* C8: under EmergencyReserve, after exactly one Sunray on a fresh planet, an
\* InternalStateRequest reports 0 charged cells, an AvailableEnergyCellRequest
\* reports 0, and a GenerateResourceRequest for the authorized resource gets no reply.
C8_OneSunrayReportsNothing ==
    (Strategy = "EmergencyReserve" /\ OneSunrayOnly) =>
        /\ Last("InternalStateRequest") => reply.planet_state.charged_cells_count = 0
        /\ Last("AvailableEnergyCellRequest") => reply.available_cells = 0
        /\ (Last("GenerateResourceRequest") /\ msg.arg = ai.basic_resource) =>
                reply.kind = None

\* C8 witness: after one Sunray under EmergencyReserve a GenerateResourceRequest
\* for the authorized resource was made and got no reply.
C8_Witness ==
    /\ Strategy = "EmergencyReserve" /\ OneSunrayOnly
    /\ sawRequest
    /\ Last("GenerateResourceRequest") /\ msg.arg = ai.basic_resource
    /\ reply.kind = None

\* C9: under EmergencyReserve a GenerateResourceRequest that finds at most one
\* charged cell is denied and consumes nothing, and a request that changes the
\* bank leaves at least one cell charged.
C9_ReserveIsKept ==
    (Strategy = "EmergencyReserve" /\ Last("GenerateResourceRequest")) =>
        /\ charged_count(pre.state) <= 1 => (reply.kind = None /\ state = pre.state)
        /\ state # pre.state => charged_count(state) >= 1

\* C9 witness: under EmergencyReserve a request for the authorized resource found
\* exactly one charged cell and was denied.
C9_Witness ==
    /\ Strategy = "EmergencyReserve" /\ Last("GenerateResourceRequest")
    /\ msg.arg = ai.basic_resource
    /\ charged_count(pre.state) = 1
    /\ reply.kind = None

\* cells is before with exactly its lowest-index cell of charge c flipped.
LowestFlipped(before, cells, c) ==
    \E i \in Cells :
        /\ before[i] = c
        /\ \A j \in Cells : j < i => before[j] # c
        /\ cells[i] = ~c
        /\ \A j \in Cells : j # i => cells[j] = before[j]

\* C11: under Safe and EmergencyReserve an Asteroid that finds a rocket is
\* answered with it and a rebuild is attempted: afterwards has_rocket holds iff
\* a cell was charged on arrival, and then exactly the lowest-index charged cell
\* was emptied; under Disabled and Default nothing is rebuilt after a launch.
C11_LaunchThenRebuild ==
    Last("Asteroid") =>
        /\ (Strategy \in {"Safe", "EmergencyReserve"} /\ pre.state.rocket) =>
                /\ reply.rocket
                /\ state.rocket <=> charged_count(pre.state) >= 1
                /\ charged_count(pre.state) >= 1 =>
                        (built = 1 /\ LowestFlipped(pre.state.cells, state.cells, TRUE))
                /\ charged_count(pre.state) = 0 =>
                        (built = 0 /\ state.cells = pre.state.cells)
        /\ (Strategy \in {"Disabled", "Default"} /\ reply.rocket) => ~state.rocket

\* C11 witness: under EmergencyReserve an Asteroid found a rocket and a charged
\* cell beyond the first, launched, and rebuilt.
C11_Witness ==
    /\ Last("Asteroid") /\ Strategy = "EmergencyReserve"
    /\ pre.state.rocket /\ ~pre.state.cells[1] /\ charged_count(pre.state) >= 1
    /\ reply.rocket /\ state.rocket

\* C12: under Disabled no rocket is ever built: in every reachable state
\* has_rocket is false, every Asteroid is answered with no rocket, and Asteroid
\* handling leaves every cell's charge unchanged.
C12_DisabledNeverBuilds ==
    Strategy = "Disabled" =>
        /\ ~has_rocket(state)
        /\ built = 0
        /\ builds = 0
        /\ Last("Asteroid") => (~reply.rocket /\ state.cells = pre.state.cells)

\* C12 witness: under Disabled an Asteroid found charged cells and got no rocket.
C12_Witness ==
    /\ Strategy = "Disabled" /\ Last("Asteroid")
    /\ charged_count(pre.state) >= 1
    /\ ~reply.rocket

\* C13: a Default Asteroid handling that starts with no rocket and a charged cell
\* (build, then take) ends with no rocket and the charged count one lower:
\* exactly one cell went from charged to empty, every other cell is unchanged.
C13_BuildThenTake ==
    (Strategy = "Default" /\ Last("Asteroid")
        /\ ~pre.state.rocket /\ charged_count(pre.state) >= 1) =>
        /\ ~has_rocket(state)
        /\ charged_count(state) = charged_count(pre.state) - 1
        /\ \E i \in Cells :
                /\ pre.state.cells[i] /\ ~state.cells[i]
                /\ \A j \in Cells : j # i => state.cells[j] = pre.state.cells[j]

\* C13 witness: a Default Asteroid handling found no rocket and two or more
\* charged cells, and launched the rocket it built.
C13_Witness ==
    /\ Strategy = "Default" /\ Last("Asteroid")
    /\ ~pre.state.rocket /\ charged_count(pre.state) >= 2
    /\ built = 1 /\ reply.rocket

\* C14: at most one rocket exists and is built per handling; try_build_rocket
\* succeeds only where can_have_rocket holds and no rocket exists, and then
\* empties exactly one charged cell and fills the slot; attempted while a rocket
\* exists or with no charged cell it fails and changes nothing.
C14_BuildContract ==
    LET t == try_build_rocket(state) IN
    /\ built <= 1
    /\ t.index # 0 =>
            /\ can_have_rocket /\ ~has_rocket(state)
            /\ state.cells[t.index]
            /\ t.state = [cells |-> [state.cells EXCEPT ![t.index] = FALSE], rocket |-> TRUE]
    /\ (has_rocket(state) \/ charged_count(state) = 0) =>
            (t.index = 0 /\ t.state = state)
    /\ (Last("Sunray") /\ built = 1) => (~pre.state.rocket /\ state.rocket)
    /\ (Last("Sunray") /\ pre.state.rocket) => (built = 0 /\ state.rocket)
    /\ (Last("Asteroid") /\ built = 1) =>
            charged_count(state) = charged_count(pre.state) - 1

\* C14 witness: a rocket was just built while cells stay charged, so a further
\* build attempt in this state fails.
C14_Witness ==
    /\ built = 1
    /\ has_rocket(state) /\ charged_count(state) >= 1
    /\ try_build_rocket(state).index = 0

\* C15: in every reachable state, after any interleaving of Orchestrator and
\* Explorer messages, 0 <= charged_count <= capacity, and the capacity (the
\* number of cells) is what it was before the last handling and at construction.
C15_ChargedCountWithinCapacity ==
    /\ DOMAIN state.cells = 1..Capacity
    /\ DOMAIN pre.state.cells = DOMAIN state.cells
    /\ \A i \in DOMAIN state.cells : state.cells[i] \in BOOLEAN
    /\ 0 <= charged_count(state)
    /\ charged_count(state) <= Capacity

\* C15 witness: after Sunrays, an Asteroid and other requests the bank is full.
C15_Witness ==
    /\ sawAsteroid /\ sawRequest /\ sunrays >= 1
    /\ charged_count(state) = Capacity

\* C16: charging on a Sunray is all-or-nothing: with an uncharged cell exactly
\* the lowest-index uncharged cell becomes charged and nothing is left over;
\* with every cell charged no cell changes and the Sunray is the leftover. A
\* Sunray handling that builds no rocket shows exactly that change.
C16_ChargeAllOrNothing ==
    LET c == charge_cell(state) IN
    /\ ~AllCharged(state) =>
            /\ ~c.leftover
            /\ LowestFlipped(state.cells, c.state.cells, FALSE)
            /\ c.state.rocket = state.rocket
    /\ AllCharged(state) => (c.leftover /\ c.state = state)
    /\ (Last("Sunray") /\ built = 0 /\ ~AllCharged(pre.state)) =>
            /\ LowestFlipped(pre.state.cells, state.cells, FALSE)
            /\ state.rocket = pre.state.rocket
    /\ (Last("Sunray") /\ built = 0 /\ AllCharged(pre.state)) => state = pre.state

\* C16 witness: a Sunray found cell 1 charged and cell 2 free, and charged cell 2.
C16_Witness ==
    /\ Last("Sunray") /\ built = 0
    /\ pre.state.cells[1] /\ ~pre.state.cells[2]
    /\ state.cells[2]

\* C17: every Sunray, in every state and under every strategy, is answered with
\* one SunrayAck carrying the planet's own id.
C17_SunrayAlwaysAcked ==
    Last("Sunray") => reply = [kind |-> "SunrayAck", planet_id |-> PlanetId]

\* C17 witness: a Sunray that found the bank saturated and was dropped was
\* acknowledged.
C17_Witness ==
    /\ Last("Sunray")
    /\ AllCharged(pre.state) /\ built = 0
    /\ reply.kind = "SunrayAck"

\* C18: a Sunray that finds the bank saturated while no rocket is to be built
\* (strategy Disabled or Default, a rocket exists, or rockets are forbidden) is
\* dropped: every cell stays charged, the rocket slot is unchanged, and the
\* Sunray is still acknowledged.
C18_LeftoverDropped ==
    (/\ Last("Sunray")
     /\ AllCharged(pre.state)
     /\ \/ Strategy \in {"Disabled", "Default"}
        \/ pre.state.rocket
        \/ ~can_have_rocket) =>
        /\ built = 0
        /\ AllCharged(state)
        /\ state.rocket = pre.state.rocket
        /\ reply.kind = "SunrayAck"

\* C18 witness: under Default a Sunray found the bank saturated and no rocket,
\* and changed nothing.
C18_Witness ==
    /\ Last("Sunray") /\ Strategy = "Default"
    /\ AllCharged(pre.state) /\ ~pre.state.rocket
    /\ state = pre.state

\* C19: CombineResourceRequest yields no reply, for every payload, strategy and
\* state, and leaves every cell's charge and the rocket slot unchanged.
C19_CombineAlwaysRejected ==
    Last("CombineResourceRequest") => (reply.kind = None /\ state = pre.state)

\* C19 witness: a CombineResourceRequest found a charged cell and got no reply.
C19_Witness ==
    /\ Last("CombineResourceRequest")
    /\ charged_count(pre.state) >= 1
    /\ reply.kind = None

\* The reply kind each read-only request is answered with.
ReadOnlyReply ==
    [InternalStateRequest |-> "InternalStateResponse",
     SupportedResourceRequest |-> "SupportedResourceResponse",
     SupportedCombinationRequest |-> "SupportedCombinationResponse",
     AvailableEnergyCellRequest |-> "AvailableEnergyCellResponse"]

\* C20: InternalStateRequest, SupportedResourceRequest, SupportedCombinationRequest
\* and AvailableEnergyCellRequest are each answered with their one reply and
\* leave cells and rocket slot unchanged; outside EmergencyReserve the
\* InternalStateResponse snapshot is the true state, and under EmergencyReserve
\* only charged_cells_count is masked (one less, never below zero) while
\* has_rocket and the cells are reported truthfully.
C20_ReadOnlyRequests ==
    /\ msg.kind \in DOMAIN ReadOnlyReply =>
            (reply.kind = ReadOnlyReply[msg.kind] /\ state = pre.state)
    /\ Last("InternalStateRequest") =>
            /\ reply.planet_id = PlanetId
            /\ reply.planet_state.has_rocket = state.rocket
            /\ reply.planet_state.energy_cells = state.cells
            /\ Strategy # "EmergencyReserve" =>
                    reply.planet_state.charged_cells_count =
                        Cardinality({i \in Cells : state.cells[i]})
            /\ Strategy = "EmergencyReserve" =>
                    reply.planet_state.charged_cells_count =
                        (IF \E i \in Cells : state.cells[i]
                         THEN Cardinality({i \in Cells : state.cells[i]}) - 1
                         ELSE 0)
    /\ Last("SupportedResourceRequest") => reply.resource_list = {ai.basic_resource}
    /\ Last("SupportedCombinationRequest") => reply.combination_list = {}

\* C20 witness: under EmergencyReserve an InternalStateRequest found a rocket and
\* charged cells and reported the rocket and a masked count.
C20_Witness ==
    /\ Last("InternalStateRequest") /\ Strategy = "EmergencyReserve"
    /\ state.rocket /\ charged_count(state) >= 1
    /\ reply.planet_state.has_rocket
    /\ reply.planet_state.charged_cells_count = charged_count(state) - 1

\* The number of charged cells of a PlanetState, counted directly on the bank.
ChargedCells(st) == Cardinality({i \in Cells : st.cells[i]})

\* C21: an AvailableEnergyCellRequest is answered with the number n of cells
\* charged at that moment under Disabled, Default and Safe, and with n - 1, or 0
\* when n is 0, under EmergencyReserve; the answer lies between 0 and n.
C21_AvailableIsChargedOrMaskedCount ==
    Last("AvailableEnergyCellRequest") =>
        LET n == ChargedCells(state) IN
        /\ reply.kind = "AvailableEnergyCellResponse"
        /\ Strategy # "EmergencyReserve" => reply.available_cells = n
        /\ Strategy = "EmergencyReserve" =>
                reply.available_cells = (IF n >= 1 THEN n - 1 ELSE 0)
        /\ reply.available_cells \in 0..n

\* C21 witness: under EmergencyReserve an AvailableEnergyCellRequest arrived with no
\* cell charged and was answered 0, and the bank is not at its capacity.
C21_Witness ==
    /\ Strategy = "EmergencyReserve" /\ Last("AvailableEnergyCellRequest")
    /\ ChargedCells(state) = 0
    /\ reply.available_cells = 0

\* The two planets run Safe and EmergencyReserve, one each.
SafeAgainstReserve ==
    /\ {Strategy, twin.ai.rocket_strategy} = {"Safe", "EmergencyReserve"}

\* Only Sunrays and Asteroids (StartPlanetAI and StopPlanetAI aside) were handled.
OnlySunraysAndAsteroids == ~sawRequest

\* C22: a Safe and an EmergencyReserve planet fed the same sequence of Sunrays and
\* Asteroids have, after every message, the same cell bank and rocket slot, and the
\* same reply to it; on equal states they also answer alike every message
\* that neither reports a count nor is a GenerateResourceRequest.
C22_ReserveBehavesAsSafe ==
    SafeAgainstReserve =>
        /\ OnlySunraysAndAsteroids =>
                /\ twin.state = state
                /\ (Last("Sunray") \/ Last("Asteroid")) => twin.reply = reply
        /\ (twin.state = state /\ pre.state = state) =>
                /\ msg.kind \in {"Other", "SupportedResourceRequest",
                                 "SupportedCombinationRequest", "CombineResourceRequest"}
                        => twin.reply = reply
                /\ Last("InternalStateRequest") =>
                        /\ twin.reply.planet_state.has_rocket = reply.planet_state.has_rocket
                        /\ twin.reply.planet_state.energy_cells = reply.planet_state.energy_cells

\* C22 witness: the EmergencyReserve planet of a Safe/EmergencyReserve pair fed only
\* Sunrays and Asteroids launched a rocket on an Asteroid and rebuilt it from a
\* charged cell, as the Safe planet did.
C22_Witness ==
    /\ Strategy = "EmergencyReserve" /\ twin.ai.rocket_strategy = "Safe"
    /\ OnlySunraysAndAsteroids
    /\ Last("Asteroid") /\ reply.rocket /\ built = 1
    /\ state.rocket /\ twin.state.rocket
    /\ ChargedCells(state) = ChargedCells(pre.state) - 1

\* The two planets were built with the same strategy (and the same resource).
SameStrategy == twin.ai.rocket_strategy = Strategy

\* C23: two planets built with the same strategy and authorized resource and fed
\* the same messages have, after every message, the same reply and the same cell
\* bank and rocket slot, also while one is running and the other is not.
C23_SameInputsSameOutcome ==
    SameStrategy =>
        /\ twin.ai.basic_resource = ai.basic_resource
        /\ twin.state = state
        /\ twin.reply = reply

\* C23 witness: of two planets with the same strategy, one running and one not,
\* both were asked to generate the authorized resource and both produced it.
C23_Witness ==
    /\ SameStrategy
    /\ twin.ai.running # ai.running
    /\ Last("GenerateResourceRequest")
    /\ reply.kind = "GenerateResourceResponse" /\ twin.reply = reply
    /\ state # pre.state /\ twin.state = state

\* C24: handling StartPlanetAI leaves the AI as it was except that running is true,
\* handling StopPlanetAI leaves it as it was except that running is false, and
\* neither changes the cell bank, the rocket slot or the Generator's recipes nor
\* replies; so a second start, or a second stop, changes nothing.
C24_StartStopOnlySetRunning ==
    [][/\ msg'.kind = "StartPlanetAI" =>
            /\ ai' = [ai EXCEPT !.running = TRUE]
            /\ state' = state /\ generator' = generator /\ reply' = NoReply
       /\ msg'.kind = "StopPlanetAI" =>
            /\ ai' = [ai EXCEPT !.running = FALSE]
            /\ state' = state /\ generator' = generator /\ reply' = NoReply
       /\ (msg'.kind = "StartPlanetAI" /\ ai.running) => ai' = ai
       /\ (msg'.kind = "StopPlanetAI" /\ ~ai.running) => ai' = ai]_vars

\* C24 witness: StartPlanetAI was handled by an AI already running, with a rocket in
\* the slot and a cell charged, and all of that is still so.
C24_Witness ==
    /\ Last("StartPlanetAI") /\ pre.running /\ ai.running
    /\ state.rocket /\ ChargedCells(state) >= 1 /\ state = pre.state

SafeOrReserve == Strategy \in {"Safe", "EmergencyReserve"}

\* C25: under Safe and EmergencyReserve, after every handling, a planet without a
\* rocket has no charged cell.
C25_NoRocketNoCharge ==
    SafeOrReserve => (~has_rocket(state) => ChargedCells(state) = 0)

\* C25 witness: under EmergencyReserve an Asteroid took the rocket and none could be
\* rebuilt: the slot is empty and so is the bank.
C25_Witness ==
    /\ Strategy = "EmergencyReserve"
    /\ Last("Asteroid") /\ reply.rocket
    /\ ~has_rocket(state) /\ ChargedCells(state) = 0

\* C26: under Safe and EmergencyReserve a Sunray that finds every cell charged finds
\* a rocket in the slot, builds none, and leaves bank and slot as they were: its
\* energy is lost.
C26_SaturatedSunrayIsLost ==
    (SafeOrReserve /\ Last("Sunray") /\ AllCharged(pre.state)) =>
        /\ has_rocket(pre.state)
        /\ built = 0
        /\ state = pre.state
        /\ reply.kind = "SunrayAck"

\* C26 witness: under Safe a Sunray arrived with every cell charged and the rocket
\* built earlier still in the slot.
C26_Witness ==
    /\ Strategy = "Safe" /\ Last("Sunray")
    /\ AllCharged(pre.state) /\ has_rocket(pre.state)
    /\ builds >= 1 /\ built = 0

\* C27: under Default no rocket is in the slot after any handling, and every
\* InternalStateResponse reports has_rocket false.
C27_DefaultKeepsNoRocket ==
    Strategy = "Default" =>
        /\ ~has_rocket(state)
        /\ Last("InternalStateRequest") => ~reply.planet_state.has_rocket

\* C27 witness: under Default, after a rocket was built and launched on an Asteroid,
\* an InternalStateRequest was answered with has_rocket false.
C27_Witness ==
    /\ Strategy = "Default" /\ sawAsteroid /\ builds >= 1
    /\ Last("InternalStateRequest") /\ ~reply.planet_state.has_rocket

\* C28: under Safe and EmergencyReserve an Asteroid that arrives after at least one
\* Sunray has been handled since the previous Asteroid (or since construction) is
\* answered with a rocket, whatever other messages came in between.
C28_FedAsteroidGetsRocket ==
    (SafeOrReserve /\ Last("Asteroid") /\ pre.fed) =>
        /\ reply.kind = "AsteroidAck"
        /\ reply.rocket

\* C28 witness: under EmergencyReserve, on a planet that also served Explorer
\* requests, an Asteroid came after a Sunray and a previous Asteroid and got a rocket.
C28_Witness ==
    /\ Strategy = "EmergencyReserve"
    /\ Last("Asteroid") /\ pre.fed /\ ~fed
    /\ sawRequest /\ builds >= 2
    /\ reply.rocket

\* The message kinds of handle_explorer_msg.
ExplorerKinds ==
    {"SupportedResourceRequest", "SupportedCombinationRequest", "GenerateResourceRequest",
     "CombineResourceRequest", "AvailableEnergyCellRequest"}

\* C29: handling an Explorer message never changes the rocket slot and never charges
\* a cell; it changes the bank only when it is a GenerateResourceRequest that is
\* answered, and then exactly the lowest-index charged cell is emptied and every
\* other cell is as before.
C29_ExplorerOnlyDischargesLowest ==
    msg.kind \in ExplorerKinds =>
        /\ state.rocket = pre.state.rocket
        /\ \A i \in Cells : state.cells[i] => pre.state.cells[i]
        /\ state # pre.state =>
                Last("GenerateResourceRequest") /\ reply.kind = "GenerateResourceResponse"
        /\ (Last("GenerateResourceRequest") /\ reply.kind = "GenerateResourceResponse") =>
                LowestFlipped(pre.state.cells, state.cells, TRUE)

\* C29 witness: a GenerateResourceRequest was answered on a bank whose first cell was
\* empty and which held two charged cells and a rocket; one charged cell is left.
C29_Witness ==
    /\ Last("GenerateResourceRequest") /\ reply.kind = "GenerateResourceResponse"
    /\ ~pre.state.cells[1] /\ ChargedCells(pre.state) = 2
    /\ ChargedCells(state) = 1
    /\ pre.state.rocket /\ state.rocket

\* C30: a message that reaches the catch-all arm of handle_orchestrator_msg (any
\* kind but Sunray and InternalStateRequest) gets no reply and leaves the cell bank,
\* the rocket slot and the running flag as they were.
C30_CatchAllDoesNothing ==
    Last("Other") =>
        /\ msg.arg \in OtherOrchestratorKinds
        /\ reply = NoReply
        /\ state = pre.state
        /\ ai.running = pre.running

\* C30 witness: an Asteroid message handed to handle_orchestrator_msg of a running
\* planet with a rocket and a charged cell: no reply, and the rocket is still there.
C30_Witness ==
    /\ Last("Other") /\ msg.arg = "Asteroid"
    /\ reply = NoReply
    /\ pre.running /\ pre.state.rocket /\ ChargedCells(pre.state) >= 1
    /\ state.rocket

====
